---------------------------- MODULE Spec2Model ----------------------------
(***************************************************************************)
(* Eternal Cinema Hall: the App (React state, navigation handlers, content *)
(* fetches) and the Gallery3D engine (camera rig, panel placement, panel   *)
(* flip), as state machines.                                               *)
(*                                                                         *)
(* Reals are fixed-point integers in thousandths (UNIT = 1000): a rail     *)
(* position of 14.8 is 14800, an angle of pi is 3142 (milliradians), a     *)
(* frame delta of 0.016 s is 16.                                           *)
(*                                                                         *)
(* Two revisions of the App live in the repository: src/index.tsx (the     *)
(* "refresh" variant, bounded rail with a portal) and src/unnamed/part_002 *)
(* (the "infinite" variant, batches appended while scrolling).  The        *)
(* variable `variant` selects the revision in Init.                        *)
(***************************************************************************)
EXTENDS Integers, Sequences, FiniteSets, TLC

VARIABLES
    variant,            \* "refresh" (src/index.tsx) or "infinite" (src/unnamed/part_002)
    svc,                \* the fetchMovieData variant linked in: 1 or 2
    movies,             \* AppState.movies: sequence of [id, art]
    currentMovieIndex,  \* AppState.currentMovieIndex
    isDetailsOpen,      \* AppState.isDetailsOpen
    language,           \* AppState.language
    isLoading,          \* AppState.isLoading
    scrollPos,          \* useState(0), thousandths
    scrollPosRef,       \* useRef(0), written by the effect on [scrollPos]
    errorMsg,           \* useState<string|null>(null): "null" or "msg"
    isCurating,         \* part_002: useState(true)
    initPc,             \* initData: "pending" | "done"
    refreshPc,          \* handleRefreshExhibition: "idle" | "fetching" | "delay" | "error"
    refreshData,        \* the value the race resolved to, held over the 1 s delay
    loadPc,             \* part_002 loadMore: "idle" | "started" | "fetching"
    loadsInFlight,      \* part_002: calls of loadMore that wait for their fetch
    smoothScroll,       \* Gallery3D: smoothScroll.current
    camera,             \* camera.position [x, y, z]
    smoothedLookAt,     \* smoothedLookAt.current [x, y, z]
    elapsed,            \* state.clock.elapsedTime
    flipRotY,           \* MoviePanel: flipGroup.rotation.y, per panel key
    rig,                \* the locals of the most recent Gallery3D frame callback
    frameNo,            \* frames rendered so far
    panelScale,         \* MoviePanel: outerGroup.scale (uniform), per panel key
    followers,          \* positions of the light group, floor, grid and particle cloud
    portal,             \* PortalDoor: distance read, opacity, displayed visibility
    restartLog,         \* the portal's state at the most recent onEnter invocation
    img,                \* part_000 AsyncImagePanel: url, texture and loads in flight
    probe               \* argument and result of a function applied on its own

appVars == <<variant, svc, movies, currentMovieIndex, isDetailsOpen, language, isLoading,
             scrollPos, scrollPosRef, errorMsg, isCurating, initPc, refreshPc,
             refreshData, loadPc, loadsInFlight>>
engineVars == <<smoothScroll, camera, smoothedLookAt, elapsed, flipRotY, rig, frameNo,
                panelScale, followers, portal, restartLog, img, probe>>
vars == <<appVars, engineVars>>

---------------------------------------------------------------------------
(* Fixed-point arithmetic *)

UNIT == 1000
PI == 3142
HALF_PI == 1571

Min(a, b) == IF a < b THEN a ELSE b
Max(a, b) == IF a > b THEN a ELSE b

\* Integer division truncating toward zero, as a float product rounded to the grid.
TruncDiv(a, b) == IF a >= 0 THEN a \div b ELSE -((-a) \div b)

\* x * y for two fixed-point numbers
Mul(x, y) == TruncDiv(x * y, UNIT)

\* a / b rounded to the nearest grid point: every floating-point product and
\* quotient is rounded to the nearest representable number.
RoundDiv(a, b) == IF a >= 0 THEN (2 * a + b) \div (2 * b) ELSE -((2 * (-a) + b) \div (2 * b))

\* Math.round: the nearest integer, halves toward +infinity; argument in
\* thousandths, result a plain integer.
MathRound(x) == (x + 500) \div UNIT

\* Math.sin, argument and result in thousandths.  Range reduction to
\* [-pi/2, pi/2], then the Taylor polynomial to x^7.
SinPoly(x) ==
    LET x2 == Mul(x, x)
        x3 == Mul(x2, x)
        x5 == Mul(x3, x2)
        x7 == Mul(x5, x2)
    IN  x - TruncDiv(x3, 6) + TruncDiv(x5, 120) - TruncDiv(x7, 5040)

MathSin(a) ==
    LET r == a % (2 * PI)                         \* in 0 .. 2*PI-1
        s == IF r > PI THEN r - 2 * PI ELSE r     \* in -PI .. PI
        f == IF s > HALF_PI THEN PI - s
             ELSE IF s < -HALF_PI THEN -PI - s
             ELSE s
    IN  SinPoly(f)

\* Math.exp(-x) for x >= 0, thousandths: halve the argument until the Taylor
\* polynomial is accurate, then square back.
RECURSIVE ExpNeg(_)
ExpNeg(x) ==
    IF x > 16000 THEN 0
    ELSE IF x <= 250
    THEN UNIT - x + TruncDiv(x * x, 2 * UNIT) - TruncDiv(Mul(x, x) * x, 6 * UNIT)
    ELSE LET h == ExpNeg((x + 1) \div 2) IN Mul(h, h)

\* Integer square root of n >= 0.
RECURSIVE SqrtIter(_, _, _)
SqrtIter(n, lo, hi) ==
    IF lo >= hi THEN lo
    ELSE LET mid == (lo + hi + 1) \div 2
         IN  IF mid * mid <= n THEN SqrtIter(n, mid, hi) ELSE SqrtIter(n, lo, mid - 1)
Sqrt(n) == SqrtIter(n, 0, 40000)

\* Math.asin on thousandths, |x| <= 1000; series to x^7 (the panel tangents
\* keep |x| below 0.4).
MathAsin(x) ==
    LET x2 == Mul(x, x)
        x3 == Mul(x2, x)
        x5 == Mul(x3, x2)
        x7 == Mul(x5, x2)
    IN  x + TruncDiv(x3, 6) + TruncDiv(3 * x5, 40) + TruncDiv(15 * x7, 336)

\* THREE.MathUtils.lerp(x, y, t) = (1 - t) * x + t * y
Lerp(x, y, t) == RoundDiv((UNIT - t) * x, UNIT) + RoundDiv(t * y, UNIT)


---------------------------------------------------------------------------
(* Bounds of the model *)

MaxRail == 19       \* part_002: the rail is unbounded above; scrolling stops here
MaxLen == 19        \* part_002: appended batches stop growing the list here
MaxFrames == 2      \* frames rendered in the engine specification

\* Lengths of the movie lists the content service may answer with.
RawLens == {0, 1, 3, 17}
\* The id the service put on every item of its answer (it is overwritten).
RawIds == {0, 7}
\* e.deltaY of the wheel events tried: 250 scrolls half a station.
WheelDeltas == {-250, 250}
\* Frame deltas in ms: a 250 ms stall, above the 0.1 s cap of the rig's step.
FrameDeltas == {250}

---------------------------------------------------------------------------
(* Content: constants.ts and geminiService.ts *)

FALLBACK_LEN == 16
FALLBACK_MOVIES == [i \in 1..FALLBACK_LEN |-> [id |-> i, art |-> "F"]]

SLICE_LIMIT == 16

RawMovies(n, rid) == [i \in 1..n |-> [id |-> rid, art |-> "G"]]

\* What generateContent / JSON.parse may produce: a failure of any kind (no key,
\* API error, empty text, unparseable text), a JSON object without a movies
\* array, or one with a movies array.
RawResponses ==
    {[kind |-> "fail", hasMovies |-> FALSE, movies |-> <<>>],
     [kind |-> "json", hasMovies |-> FALSE, movies |-> <<>>]}
    \cup {[kind |-> "json", hasMovies |-> TRUE, movies |-> RawMovies(n, rid)] :
            n \in RawLens, rid \in RawIds}

Null == [isNull |-> TRUE, hasMovies |-> FALSE, movies |-> <<>>]

\* mutant: the ids the service returned are kept
AssignIdsKeepRaw(list) == list

\* data.movies.map((m, index) => ({ ...m, id: index + 1 }))
AssignIds(list) == [i \in 1..Len(list) |-> [list[i] EXCEPT !.id = i]]

\* fetchMovieData, first variant (v = 1, slices to 16) and second variant (v = 2)
FetchMovieData(raw, v) ==
    IF raw.kind = "fail" THEN Null
    ELSE IF ~raw.hasMovies THEN [isNull |-> FALSE, hasMovies |-> FALSE, movies |-> <<>>]
    ELSE LET kept == IF v = 1
                     THEN SubSeq(raw.movies, 1, Min(SLICE_LIMIT, Len(raw.movies)))
                     ELSE raw.movies
         IN  [isNull |-> FALSE, hasMovies |-> TRUE, movies |-> AssignIds(kept)]

\* data && data.movies && data.movies.length > 0
HasMovies(data) == ~data.isNull /\ data.hasMovies /\ Len(data.movies) > 0

---------------------------------------------------------------------------
(* The App: React state, effects and handlers *)

\* The React state of the current render, as one record.
Cur == [sp |-> scrollPos, mv |-> movies, cmi |-> currentMovieIndex,
        det |-> isDetailsOpen, lang |-> language, load |-> isLoading,
        cur |-> isCurating, err |-> errorMsg, lp |-> loadPc, nf |-> loadsInFlight]

\* index.tsx effect: Math.min(Math.max(Math.round(scrollPos), 0), movies.length - 1)
AppSafeIndex(sp, len) == Min(Max(MathRound(sp), 0), len - 1)

\* The effect "Update current index based on scroll position": it runs after a
\* render whose dependencies changed.  index.tsx depends on [scrollPos,
\* movies.length] and clamps; part_002 depends on [scrollPos] and does not.
IndexSyncEffect(n) ==
    IF variant = "refresh"
    THEN IF n.sp # scrollPos \/ Len(n.mv) # Len(movies)
         THEN [n EXCEPT !.cmi = AppSafeIndex(n.sp, Len(n.mv))]
         ELSE n
    ELSE IF n.sp # scrollPos /\ MathRound(n.sp) >= 0
         THEN [n EXCEPT !.cmi = MathRound(n.sp)]
         ELSE n

\* loadMore calls waiting for their fetch that a behaviour may hold at once
MaxLoads == 2

\* part_002 effect "Infinite Scroll Trigger", dependencies [scrollPos,
\* movies.length, isLoading, isCurating], reading the flags of the render it
\* belongs to: starts loadMore, which queues both flag updates and calls
\* fetchMovieData.  The updates are queued from a passive effect (default
\* priority): they are rendered by a later scheduler task ("started" until
\* then), not by the commit the effect belongs to.
InfiniteScrollEffect(n) ==
    IF /\ variant = "infinite"
       /\ \/ n.sp # scrollPos
          \/ Len(n.mv) # Len(movies)
          \/ n.load # isLoading
          \/ n.cur # isCurating
       /\ n.sp > (Len(n.mv) - 4) * UNIT
       /\ ~n.load
       /\ ~n.cur
    THEN [n EXCEPT !.lp = "started", !.nf = n.nf + 1]
    ELSE n

\* Gallery3D renders one MoviePanel per movie, keyed by movie.id: a key that
\* stays keeps its flip angle, a new key mounts at rotation 0.
PanelKeys(mv) == {mv[i].id : i \in 1..Len(mv)}
Remount(mv) == [k \in PanelKeys(mv) |-> IF k \in DOMAIN flipRotY THEN flipRotY[k] ELSE 0]
\* the same for outerGroup.scale: a new mount has scale 1
RemountScale(mv) ==
    [k \in PanelKeys(mv) |-> IF k \in DOMAIN panelScale THEN panelScale[k] ELSE UNIT]

engineFrame == <<smoothScroll, camera, smoothedLookAt, elapsed, rig, frameNo, followers, portal>>
engineRest == <<engineFrame, restartLog, img, probe>>

\* The flag updates queued by loadMore, applied by the next render that
\* includes default-priority updates.
PendingFlags(n0) ==
    IF n0.lp = "started"
    THEN [n0 EXCEPT !.load = TRUE, !.cur = TRUE, !.lp = "fetching"]
    ELSE n0

\* One handler's state updates and the render that follows, with the effects
\* of that render other than the write of scrollPosRef.
Render(n0) ==
    LET n == InfiniteScrollEffect(IndexSyncEffect(n0))
    IN  /\ scrollPos' = n.sp
        /\ movies' = n.mv
        /\ currentMovieIndex' = n.cmi
        /\ isDetailsOpen' = n.det
        /\ language' = n.lang
        /\ isLoading' = n.load
        /\ isCurating' = n.cur
        /\ errorMsg' = n.err
        /\ loadPc' = n.lp
        /\ n.nf <= MaxLoads
        /\ loadsInFlight' = n.nf
        /\ flipRotY' = Remount(n.mv)
        /\ panelScale' = RemountScale(n.mv)
        /\ UNCHANGED <<variant, svc>>

\* The same with the passive effect `scrollPosRef.current = scrollPos` run in
\* the same task: React flushes passive effects synchronously at the end of
\* a commit caused by a discrete event (click, keydown), and before any later
\* render.
Commit(n0) ==
    /\ Render(n0)
    /\ scrollPosRef' = n0.sp

\* A commit caused by a wheel event (a continuous event): the passive effects
\* are left to a later scheduler task, which may or may not come before the
\* next task of another source (the effects of earlier commits have run by
\* the time of this render).  Only initData reads the ref, so the delay is
\* modelled while initData is pending.  React renders continuous-priority
\* and default-priority updates in one batch, so this render includes flag
\* updates that loadMore queued.
CommitContinuous(n0) ==
    /\ Render(PendingFlags(n0))
    /\ scrollPosRef' \in IF initPc = "pending" THEN {scrollPos, n0.sp} ELSE {n0.sp}

\* the deferred passive effect of line 45 runs
FlushPassiveEffects ==
    /\ scrollPosRef # scrollPos
    /\ scrollPosRef' = scrollPos
    /\ UNCHANGED <<variant, svc, movies, currentMovieIndex, isDetailsOpen, language, isLoading,
                   scrollPos, errorMsg, isCurating, initPc, refreshPc, refreshData, loadPc,
                   loadsInFlight, flipRotY, panelScale, engineRest>>

\* The loading overlay (absolute inset-0, z-100, pointer-events-auto) covers the
\* canvas while isLoading: pointer clicks cannot reach the 3D scene.  DOM
\* buttons stay reachable by keyboard, and wheel events bubble to the root.
OverlayBlocksPointer == variant = "refresh" /\ isLoading

\* -- handlers shared by both revisions --

\* onItemClick={(idx) => { setScrollPos(idx); setState(isDetailsOpen: true) }}
OnItemClick(idx) ==
    /\ ~OverlayBlocksPointer
    /\ Commit([Cur EXCEPT !.sp = idx * UNIT, !.det = TRUE])
    /\ UNCHANGED <<initPc, refreshPc, refreshData, engineRest>>

\* handlePrev: setScrollPos(prev => Math.max(prev - 1, 0))
HandlePrev ==
    /\ Commit([Cur EXCEPT !.sp = Max(scrollPos - UNIT, 0)])
    /\ UNCHANGED <<initPc, refreshPc, refreshData, engineRest>>

\* mutant: ESC toggles the panel
EscKeyToggles ==
    /\ Commit([Cur EXCEPT !.det = ~isDetailsOpen])
    /\ UNCHANGED <<initPc, refreshPc, refreshData, engineRest>>

\* keydown listener: Escape closes the open details
EscKey ==
    /\ isDetailsOpen
    /\ Commit([Cur EXCEPT !.det = FALSE])
    /\ UNCHANGED <<initPc, refreshPc, refreshData, engineRest>>

\* the close button of the detail panel (rendered while the panel is open)
CloseDetails ==
    /\ isDetailsOpen
    /\ Commit([Cur EXCEPT !.det = FALSE])
    /\ UNCHANGED <<initPc, refreshPc, refreshData, engineRest>>

ToggleLanguage ==
    /\ Commit([Cur EXCEPT !.lang = IF language = "zh" THEN "en" ELSE "zh"])
    /\ UNCHANGED <<initPc, refreshPc, refreshData, engineRest>>

\* -- src/index.tsx --

\* initData: the background fetch started on mount settles
InitData(raw) ==
    /\ variant = "refresh"
    /\ initPc = "pending"
    /\ initPc' = "done"
    /\ LET data == FetchMovieData(raw, svc)
       IN  IF scrollPosRef > 500 THEN Commit(Cur)
           ELSE IF HasMovies(data)
           THEN Commit([Cur EXCEPT !.mv = data.movies])
           ELSE Commit(Cur)
    /\ UNCHANGED <<refreshPc, refreshData, engineRest>>

\* handleReturnToStart, from the restart button (rendered while scrollPos > 5)
HandleReturnToStart ==
    /\ variant = "refresh"
    /\ scrollPos > 5 * UNIT
    /\ Commit([Cur EXCEPT !.sp = 0, !.det = FALSE])
    /\ UNCHANGED <<initPc, refreshPc, refreshData, engineRest>>

\* (variant for comparison: handleRefreshExhibition without its first line)
HandleRefreshUnguarded ==
    /\ variant = "refresh"
    /\ Commit([Cur EXCEPT !.load = TRUE, !.det = FALSE, !.err = "null", !.sp = 0])
    /\ refreshPc' = "fetching"
    /\ refreshData' = Null
    /\ UNCHANGED <<initPc, engineRest>>

\* handleRefreshExhibition up to its first await
HandleRefreshExhibition ==
    /\ variant = "refresh"
    /\ ~isLoading
    /\ Commit([Cur EXCEPT !.load = TRUE, !.det = FALSE, !.err = "null", !.sp = 0])
    /\ refreshPc' = "fetching"
    /\ refreshData' = Null
    /\ UNCHANGED <<initPc, engineRest>>

\* Promise.race resolves with the fetch's value; the 1 s delay starts
RefreshFetchSettles(raw) ==
    /\ refreshPc = "fetching"
    /\ refreshPc' = "delay"
    /\ refreshData' = FetchMovieData(raw, svc)
    /\ Commit(Cur)
    /\ UNCHANGED <<initPc, engineRest>>

\* the catch block of handleRefreshExhibition
RefreshCatch ==
    /\ refreshPc' = "error"
    /\ refreshData' = Null
    /\ Commit([Cur EXCEPT !.err = "msg"])
    /\ UNCHANGED <<initPc, engineRest>>

\* (variant for comparison: a refresh without the timeout promise)
RefreshTimeoutNever ==
    /\ refreshPc = "never"
    /\ RefreshCatch

\* Promise.race rejects: the 20 s timeout fired first
RefreshTimeout ==
    /\ refreshPc = "fetching"
    /\ RefreshCatch

\* the 1 s delay is over: the list is replaced, or "No data received" is thrown
RefreshDelayDone ==
    /\ refreshPc = "delay"
    /\ IF HasMovies(refreshData)
       THEN /\ Commit([Cur EXCEPT !.mv = refreshData.movies, !.load = FALSE, !.cmi = 0])
            /\ refreshPc' = "idle"
            /\ refreshData' = Null
            /\ UNCHANGED <<initPc, engineRest>>
       ELSE RefreshCatch

\* setTimeout(..., 2000) of the catch block
RefreshErrorTimer ==
    /\ refreshPc = "error"
    /\ refreshPc' = "idle"
    /\ Commit([Cur EXCEPT !.load = FALSE, !.err = "null"])
    /\ UNCHANGED <<initPc, refreshData, engineRest>>

\* handleNext: setScrollPos(prev => Math.min(prev + 1, state.movies.length))
HandleNext ==
    /\ variant = "refresh"
    /\ Commit([Cur EXCEPT !.sp = Min(scrollPos + UNIT, Len(movies) * UNIT)])
    /\ UNCHANGED <<initPc, refreshPc, refreshData, engineRest>>

\* handleWheel: delta = e.deltaY * 0.002, clamped to [0, movies.length]
HandleWheel(deltaY) ==
    /\ variant = "refresh"
    /\ ~isLoading
    /\ CommitContinuous([Cur EXCEPT !.sp = Min(Max(0, scrollPos + deltaY * 2), Len(movies) * UNIT)])
    /\ UNCHANGED <<initPc, refreshPc, refreshData, engineRest>>

\* -- src/unnamed/part_002 --

\* initData: every path ends with setIsCurating(false)
InitDataInf(raw) ==
    /\ variant = "infinite"
    /\ initPc = "pending"
    /\ initPc' = "done"
    /\ LET data == FetchMovieData(raw, svc)
       IN  IF scrollPosRef > 500 THEN Commit([Cur EXCEPT !.cur = FALSE])
           ELSE IF HasMovies(data)
           THEN Commit([Cur EXCEPT !.mv = data.movies, !.cur = FALSE])
           ELSE Commit([Cur EXCEPT !.cur = FALSE])
    /\ UNCHANGED <<refreshPc, refreshData, engineRest>>

\* handleNext: setScrollPos(prev => prev + 1)
HandleNextInf ==
    /\ variant = "infinite"
    /\ scrollPos + UNIT <= MaxRail * UNIT
    /\ Commit([Cur EXCEPT !.sp = scrollPos + UNIT])
    /\ UNCHANGED <<initPc, refreshPc, refreshData, engineRest>>

\* handleWheel: Math.max(0, prev + delta)
HandleWheelInf(deltaY) ==
    /\ variant = "infinite"
    /\ scrollPos + deltaY * 2 <= MaxRail * UNIT
    /\ CommitContinuous([Cur EXCEPT !.sp = Max(0, scrollPos + deltaY * 2)])
    /\ UNCHANGED <<initPc, refreshPc, refreshData, engineRest>>

\* mutant: the new batch is put in front of the list
AppendBatchInFront(prev, new) ==
    [i \in 1..Len(new) |-> [new[i] EXCEPT !.id = Len(prev) + i]] \o prev

\* loadMore: startingId = prev.movies.length + 1; [...prev.movies, ...newMoviesWithIds]
AppendBatch(prev, new) ==
    prev \o [i \in 1..Len(new) |-> [new[i] EXCEPT !.id = (Len(prev) + 1) + (i - 1)]]

\* the scheduler task that renders the flag updates queued by loadMore
LoadMoreFlagsRender ==
    /\ variant = "infinite"
    /\ loadPc = "started"
    /\ Commit(PendingFlags(Cur))
    /\ UNCHANGED <<initPc, refreshPc, refreshData, engineRest>>

\* loadMore after its await: the batch is appended, or only the flags are cleared
\* (newData null or empty, or newData.movies undefined, which throws into catch).
\* A network answer comes after the scheduler task that renders the flags.
LoadMoreDone(raw) ==
    /\ variant = "infinite"
    /\ loadPc = "fetching"
    /\ loadsInFlight > 0
    /\ LET newData == FetchMovieData(raw, svc)
           rest == IF loadsInFlight = 1 THEN "idle" ELSE "fetching"
       IN  IF HasMovies(newData)
           THEN /\ Len(movies) + Len(newData.movies) <= MaxLen
                /\ Commit([Cur EXCEPT !.mv = AppendBatch(movies, newData.movies),
                                      !.load = FALSE, !.cur = FALSE, !.lp = rest,
                                      !.nf = loadsInFlight - 1])
           ELSE Commit([Cur EXCEPT !.load = FALSE, !.cur = FALSE, !.lp = rest,
                                   !.nf = loadsInFlight - 1])
    /\ UNCHANGED <<initPc, refreshPc, refreshData, engineRest>>

---------------------------------------------------------------------------
(* The Gallery3D engine: path, placement, camera rig, panel flip *)

ITEM_SPACING == 8
PATH_WIDTH == 6500
CAM_LEAD == 1200
CAM_HEIGHT == 1500
LOOK_AHEAD == 3000
STAND_OFF == 3500
QUARTER_PI == 785

\* getPathPoint(t): x = sin(0.5 t) * 6, y = sin(0.3 t) * 1.5, z = -t * ITEM_SPACING
GetPathPoint(t) ==
    [x |-> MathSin(TruncDiv(t, 2)) * 6,
     y |-> TruncDiv(MathSin(TruncDiv(t * 3, 10)) * 3, 2),
     z |-> -t * ITEM_SPACING]

\* damp: lerp(current, target, 1 - Math.exp(-lambda * delta)); delta in ms
Damp(current, target, lambda, delta) ==
    Lerp(current, target, UNIT - ExpNeg(lambda * delta))

\* Object3D.lookAt followed by reading rotation.y: for a plain object the +Z
\* axis is turned to the target and the XYZ Euler angle y is asin of the x
\* component of that unit axis.
LookAtRotY(from, to) ==
    LET dx == to.x - from.x
        dy == to.y - from.y
        dz == to.z - from.z
        norm == Sqrt(dx * dx + dy * dy + dz * dz)
    IN  MathAsin(TruncDiv(dx * UNIT, norm))

\* movies.map body: const isLeft = index % 2 === 0
PanelIsLeft(index) == index % 2 = 0

\* movies.map body: const xOffset = isLeft ? -PATH_WIDTH : PATH_WIDTH
PanelXOffset(index) == IF PanelIsLeft(index) THEN -PATH_WIDTH ELSE PATH_WIDTH

\* The body of movies.map in Gallery3D's render: position, side and rotation.y
\* of the panel at an index.
PanelPlacement(index) ==
    LET centerPos == GetPathPoint(index * UNIT)
        nextPos == GetPathPoint(index * UNIT + 500)
    IN  [isLeft |-> PanelIsLeft(index),
         xOffset |-> PanelXOffset(index),
         pos |-> [x |-> centerPos.x + PanelXOffset(index), y |-> centerPos.y,
                  z |-> centerPos.z],
         rotY |-> LookAtRotY(centerPos, nextPos)
                    + (IF PanelIsLeft(index) THEN QUARTER_PI ELSE -QUARTER_PI)]

\* const isSelected = Math.round(scrollPos) === index
IsSelected(sp, index) == MathRound(sp) = index

\* mutant: the reveal ignores the details flag
IsPosterRevealedActiveOnly(isActive, det) == isActive

\* MoviePanel: const isPosterRevealed = isActive && isDetailsOpen
IsPosterRevealed(isActive, det) == isActive /\ det

\* MoviePanel useFrame, flip target: pi (back) unless revealed, then the angle
\* that turns the poster to world rotation +-pi/2 given the parent's rotation.y
FlipTarget(revealed, parentRotY, isLeft) ==
    IF revealed
    THEN (IF isLeft THEN HALF_PI ELSE -HALF_PI) - parentRotY
    ELSE PI

\* Gallery3D render: safeIndex = Math.min(Math.max(currentIndex, 0), movies.length - 1)
SafeIndex(sp, len) == Min(Max(MathRound(sp), 0), len - 1)

\* mutant: the portal starts one station too late
IsPortalLate(sp, len) == MathRound(sp) > len

\* mutant: an empty list has no portal
IsPortalNonEmpty(sp, len) == len > 0 /\ MathRound(sp) >= len

\* Gallery3D render: isPortal = currentIndex >= movies.length
IsPortal(sp, len) == MathRound(sp) >= len

\* Gallery3D render: movies[safeIndex]?.color_palette?.[0] || '#ffffff'; the
\* movies of the content service all carry a palette.
ActiveMovieColor(sp, len) ==
    IF SafeIndex(sp, len) \in 0..(len - 1) THEN "palette" ELSE "#ffffff"

\* mutant: the camera stands off on the panel's own side
DetailCamXSameSide(isLeftMovie, activeMovieX) ==
    IF isLeftMovie THEN activeMovieX - STAND_OFF ELSE activeMovieX + STAND_OFF

\* detailCamX = isLeftMovie ? (activeMovieX + 3.5) : (activeMovieX - 3.5)
DetailCamX(isLeftMovie, activeMovieX) ==
    IF isLeftMovie THEN activeMovieX + STAND_OFF ELSE activeMovieX - STAND_OFF

\* mutant: the rig takes odd indices for the left side
RigIsLeftMovieOdd(activeIdx) == activeIdx % 2 = 1

\* useFrame: const isLeftMovie = activeIdx % 2 === 0
RigIsLeftMovie(activeIdx) == activeIdx % 2 = 0

\* mutant: in detail mode the camera also drops to the panel's height
RigTargetsDetailMovesY(smooth, sp, det, len, time) ==
    LET corridorCamPos == GetPathPoint(smooth - CAM_LEAD)
        activeIdx == MathRound(sp)
        isLeftMovie == RigIsLeftMovie(activeIdx)
        activePathPos == GetPathPoint(activeIdx * UNIT)
        activeMovieX == activePathPos.x + (IF isLeftMovie THEN -PATH_WIDTH ELSE PATH_WIDTH)
        detailCamX == DetailCamX(isLeftMovie, activeMovieX)
        isPortal == IsPortal(sp, len)
        detail == det /\ ~isPortal
        look == GetPathPoint(smooth + LOOK_AHEAD)
        swayX == look.x + Mul(MathSin(TruncDiv(time, 5)), 2 * UNIT)
    IN  [activeIdx |-> activeIdx, isLeftMovie |-> isLeftMovie,
         activeMovieX |-> activeMovieX, detailCamX |-> detailCamX,
         isPortal |-> isPortal,
         corridor |-> [x |-> corridorCamPos.x, y |-> corridorCamPos.y + CAM_HEIGHT,
                       z |-> corridorCamPos.z],
         target |-> [x |-> IF detail THEN detailCamX ELSE corridorCamPos.x,
                     y |-> IF detail THEN activePathPos.y
                                     ELSE corridorCamPos.y + CAM_HEIGHT,
                     z |-> corridorCamPos.z],
         swayX |-> swayX,
         lookAt |-> [x |-> IF detail THEN Lerp(swayX, activeMovieX, 500) ELSE swayX,
                     y |-> look.y, z |-> look.z]]

\* Gallery3D useFrame, sections 2 and 3: the targets the camera position and
\* the look-at point are damped toward.  smooth is smoothScroll.current after
\* its damping step, time is state.clock.elapsedTime (ms).
RigTargets(smooth, sp, det, len, time) ==
    LET corridorCamPos == GetPathPoint(smooth - CAM_LEAD)
        activeIdx == MathRound(sp)
        isLeftMovie == RigIsLeftMovie(activeIdx)
        activePathPos == GetPathPoint(activeIdx * UNIT)
        activeMovieX == activePathPos.x + (IF isLeftMovie THEN -PATH_WIDTH ELSE PATH_WIDTH)
        detailCamX == DetailCamX(isLeftMovie, activeMovieX)
        isPortal == IsPortal(sp, len)
        look == GetPathPoint(smooth + LOOK_AHEAD)
        swayX == look.x + Mul(MathSin(TruncDiv(time, 5)), 2 * UNIT)
    IN  [activeIdx |-> activeIdx, isLeftMovie |-> isLeftMovie,
         activeMovieX |-> activeMovieX, detailCamX |-> detailCamX,
         isPortal |-> isPortal,
         corridor |-> [x |-> corridorCamPos.x, y |-> corridorCamPos.y + CAM_HEIGHT,
                       z |-> corridorCamPos.z],
         target |-> [x |-> IF isPortal THEN corridorCamPos.x
                           ELSE IF det THEN detailCamX
                           ELSE corridorCamPos.x,
                     y |-> corridorCamPos.y + CAM_HEIGHT,
                     z |-> corridorCamPos.z],
         swayX |-> swayX,
         lookAt |-> [x |-> IF det /\ ~isPortal THEN Lerp(swayX, activeMovieX, 500)
                           ELSE swayX,
                     y |-> look.y, z |-> look.z]]

\* The flip target of every rendered panel in one frame, by panel index.
FlipTargets(sp, det, len) ==
    [i \in 0..(len - 1) |->
        FlipTarget(IsPosterRevealed(IsSelected(sp, i), det),
                   PanelPlacement(i).rotY, PanelPlacement(i).isLeft)]

\* -- PortalDoor --

FADE_START == 25000
FADE_END == 8000
VISIBILITY_STEP == 50
VISIBLE_MIN == 10
MATERIAL_CAP == 950
RETURN_MIN == 800
PORTAL_LIFT == 1500

\* THREE.MathUtils.clamp(v, 0, 1)
Clamp01(v) == Max(0, Min(UNIT, v))

\* Vector3.distanceTo.  The squares are taken in hundredths to stay inside
\* 32-bit integers; the result is exact to 0.01.
DistanceTo(a, b) ==
    LET dx == TruncDiv(a.x - b.x, 10)
        dy == TruncDiv(a.y - b.y, 10)
        dz == TruncDiv(a.z - b.z, 10)
    IN  10 * Sqrt(dx * dx + dy * dy + dz * dz)

\* mutant: the portal stands one station further down the rail
PortalPosNextStation(len) ==
    LET pos == GetPathPoint((len + 1) * UNIT)
    IN  [x |-> pos.x, y |-> pos.y + PORTAL_LIFT, z |-> pos.z]

\* PortalDoor: the group's position, [pos.x, pos.y + 1.5, pos.z] with
\* pos = getPathPoint(index) and index = movies.length
PortalPos(len) ==
    LET pos == GetPathPoint(len * UNIT)
    IN  [x |-> pos.x, y |-> pos.y + PORTAL_LIFT, z |-> pos.z]

\* mutant: the fade runs the wrong way
PortalOpacityRising(dist) ==
    Clamp01(RoundDiv((dist - FADE_END) * UNIT, FADE_START - FADE_END))

\* opacity = clamp(1 - (dist - fadeEnd) / (fadeStart - fadeEnd), 0, 1)
PortalOpacity(dist) ==
    Clamp01(UNIT - RoundDiv((dist - FADE_END) * UNIT, FADE_START - FADE_END))

\* material.opacity = opacity * 0.95
MaterialOpacity(opacity) == RoundDiv(opacity * MATERIAL_CAP, UNIT)

\* PortalDoor useFrame with the camera position it reads
PortalFrame(cam, len) ==
    LET dist == DistanceTo(cam, PortalPos(len))
        opacity == PortalOpacity(dist)
    IN  [dist |-> dist,
         opacity |-> opacity,
         shown |-> IF opacity - portal.shown > VISIBILITY_STEP
                      \/ portal.shown - opacity > VISIBILITY_STEP
                   THEN opacity ELSE portal.shown,
         visible |-> opacity > VISIBLE_MIN,
         material |-> MaterialOpacity(opacity)]

\* -- MoviePanel scale --

SCALE_REVEALED == 1300
SCALE_REST == 1000

\* Vector3.lerp / Color.lerp: this.x += (v.x - this.x) * alpha
VectorLerp(x, y, alpha) == x + RoundDiv((y - x) * alpha, UNIT)

\* -- one frame --

\* One rendered frame.  The callbacks run in the order they subscribed: the
\* useFrame of a child component subscribes in its layout effect, which React
\* runs before the parent's, so FollowCameraGrid, AtmosphereParticles, the
\* MoviePanels and PortalDoor run before Gallery3D's own callback and read the
\* camera position the rig wrote in the frame before.  The flip is damped with
\* the raw delta, the scale and the particle tint are blended with a factor of
\* the raw delta, the rig is damped with the delta capped at 0.1 s.
FrameStep(delta) ==
    /\ LET step == Min(delta, 100)
           time == elapsed + delta
           smooth == Damp(smoothScroll, scrollPos, 3, step)
           len == Len(movies)
           t == RigTargets(smooth, scrollPos, isDetailsOpen, len, time)
           flips == FlipTargets(scrollPos, isDetailsOpen, len)
           indexOf(k) == CHOOSE j \in 0..(len - 1) : movies[j + 1].id = k
           cam == [x |-> Damp(camera.x, t.target.x, 4, step),
                   y |-> Damp(camera.y, t.target.y, 4, step),
                   z |-> Damp(camera.z, t.target.z, 4, step)]
       IN  /\ smoothScroll' = smooth
           /\ elapsed' = time
           /\ camera' = cam
           /\ smoothedLookAt' = [x |-> Damp(smoothedLookAt.x, t.lookAt.x, 3, step),
                                 y |-> Damp(smoothedLookAt.y, t.lookAt.y, 3, step),
                                 z |-> Damp(smoothedLookAt.z, t.lookAt.z, 3, step)]
           /\ flipRotY' = [k \in DOMAIN flipRotY |->
                             Damp(flipRotY[k], flips[indexOf(k)], 5, delta)]
           /\ panelScale' = [k \in DOMAIN panelScale |->
                               VectorLerp(panelScale[k],
                                          IF flips[indexOf(k)] # PI THEN SCALE_REVEALED
                                                                     ELSE SCALE_REST,
                                          delta * 4)]
           /\ followers' = [grid |-> [x |-> camera.x, z |-> camera.z],
                            particles |-> [x |-> camera.x, z |-> camera.z],
                            light |-> cam,
                            floor |-> [x |-> cam.x, z |-> cam.z]]
           /\ portal' = PortalFrame(camera, len)
           /\ rig' = [frame |-> frameNo + 1, sp |-> scrollPos, det |-> isDetailsOpen,
                      len |-> len, smooth |-> smooth, time |-> time,
                      t |-> t, flipTarget |-> flips,
                      prevSmooth |-> smoothScroll, prevCamera |-> camera,
                      dt |-> [rail |-> step, camera |-> step, lookAt |-> step,
                              flip |-> delta, scaleAlpha |-> delta * 4,
                              tintAlpha |-> delta * 2]]
    /\ frameNo' = frameNo + 1
    /\ UNCHANGED <<appVars, restartLog, img, probe>>

\* a frame of the engine specification
Frame(delta) ==
    /\ frameNo < MaxFrames
    /\ FrameStep(delta)

---------------------------------------------------------------------------
(* The App specification *)

RigNone == [frame |-> 0, sp |-> 0, det |-> FALSE, len |-> 0, smooth |-> 0, time |-> 0,
            t |-> RigTargets(0, 0, FALSE, 0, 0), flipTarget |-> <<>>,
            prevSmooth |-> 0, prevCamera |-> [x |-> 0, y |-> 0, z |-> 5 * UNIT],
            dt |-> [rail |-> 0, camera |-> 0, lookAt |-> 0, flip |-> 0, scaleAlpha |-> 0,
                    tintAlpha |-> 0]]

\* Before the first frame: three.js objects are visible, sit where their JSX
\* props put them, and the displayed visibility state is useState(0).
PortalNone == [dist |-> 0, opacity |-> 0, shown |-> 0, visible |-> TRUE, material |-> UNIT]
FollowersNone == [grid |-> [x |-> 0, z |-> 0], particles |-> [x |-> 0, z |-> 0],
                  light |-> [x |-> 0, y |-> 0, z |-> 0], floor |-> [x |-> 0, z |-> 0]]
RestartNone == [via |-> "none", visible |-> TRUE, shown |-> 0, opacity |-> 0, n |-> 0, at |-> 0]
ImgNone == [mounted |-> FALSE, url |-> "none", texture |-> "none", inflight |-> {},
            orphans |-> {}]
ProbeNone == [fn |-> "none"]

\* what every specification that does not exercise them starts the rest with
IdleInit ==
    /\ restartLog = RestartNone
    /\ img = ImgNone
    /\ probe = ProbeNone

EngineInit ==
    /\ smoothScroll = 0
    /\ camera = [x |-> 0, y |-> 0, z |-> 5 * UNIT]
    /\ smoothedLookAt = [x |-> 0, y |-> 0, z |-> -20 * UNIT]
    /\ elapsed = 0
    /\ flipRotY = [k \in PanelKeys(FALLBACK_MOVIES) |-> 0]
    /\ panelScale = [k \in PanelKeys(FALLBACK_MOVIES) |-> UNIT]
    /\ rig = RigNone
    /\ frameNo = 0
    /\ followers = FollowersNone
    /\ portal = PortalNone
    /\ IdleInit

AppInit ==
    /\ svc \in {1, 2}
    /\ movies = FALLBACK_MOVIES
    /\ currentMovieIndex = 0
    /\ isDetailsOpen = FALSE
    /\ language = "zh"
    /\ isLoading = FALSE
    /\ scrollPos = 0
    /\ scrollPosRef = 0
    /\ errorMsg = "null"
    /\ isCurating = (variant = "infinite")
    /\ initPc = "pending"
    /\ refreshPc = "idle"
    /\ refreshData = Null
    /\ loadPc = "idle"
    /\ loadsInFlight = 0

Init ==
    /\ variant \in {"refresh", "infinite"}
    /\ AppInit
    /\ EngineInit

Next ==
    \/ \E raw \in RawResponses : InitData(raw)
    \/ \E raw \in RawResponses : InitDataInf(raw)
    \/ \E idx \in 0..(Len(movies) - 1) : OnItemClick(idx)
    \/ HandleNext
    \/ HandleNextInf
    \/ HandlePrev
    \/ \E deltaY \in WheelDeltas : HandleWheel(deltaY)
    \/ \E deltaY \in WheelDeltas : HandleWheelInf(deltaY)
    \/ FlushPassiveEffects
    \/ EscKey
    \/ CloseDetails
    \/ ToggleLanguage
    \/ HandleReturnToStart
    \/ HandleRefreshExhibition
    \/ \E raw \in RawResponses : RefreshFetchSettles(raw)
    \/ RefreshTimeout
    \/ RefreshDelayDone
    \/ RefreshErrorTimer
    \/ LoadMoreFlagsRender
    \/ \E raw \in RawResponses : LoadMoreDone(raw)

Spec == Init /\ [][Next]_vars

\* The timers of handleRefreshExhibition always fire: the 20 s timeout (while
\* the race is undecided), the 1 s delay and the 2 s error timer.
SpecLive ==
    /\ Spec
    /\ WF_vars(RefreshTimeout)
    /\ WF_vars(RefreshDelayDone)
    /\ WF_vars(RefreshErrorTimer)

---------------------------------------------------------------------------
(* The engine specification: the refresh variant once initData has replaced *)
(* the fallback list by a RigLen-movie answer, navigation and frames.       *)

RigLen == 3

\* The engine never reads svc, and a RigLen-movie answer is the same list under
\* both fetchMovieData variants.
InitRig ==
    /\ variant = "refresh"
    /\ svc = 1
    /\ movies = FetchMovieData([kind |-> "json", hasMovies |-> TRUE,
                                movies |-> RawMovies(RigLen, 0)], svc).movies
    /\ currentMovieIndex = 0
    /\ isDetailsOpen = FALSE
    /\ language = "zh"
    /\ isLoading = FALSE
    /\ scrollPos = 0
    /\ scrollPosRef = 0
    /\ errorMsg = "null"
    /\ isCurating = FALSE
    /\ initPc = "done"
    /\ refreshPc = "idle"
    /\ refreshData = Null
    /\ loadPc = "idle"
    /\ loadsInFlight = 0
    /\ smoothScroll = 0
    /\ camera = [x |-> 0, y |-> 0, z |-> 5 * UNIT]
    /\ smoothedLookAt = [x |-> 0, y |-> 0, z |-> -20 * UNIT]
    /\ elapsed = 0
    /\ flipRotY = [k \in 1..RigLen |-> 0]
    /\ panelScale = [k \in 1..RigLen |-> UNIT]
    /\ rig = RigNone
    /\ frameNo = 0
    /\ followers = FollowersNone
    /\ portal = PortalNone
    /\ IdleInit

NextRig ==
    \/ \E idx \in 0..(Len(movies) - 1) : OnItemClick(idx)
    \/ HandleNext
    \/ HandlePrev
    \/ \E deltaY \in WheelDeltas : HandleWheel(deltaY)
    \/ EscKey
    \/ CloseDetails
    \/ \E delta \in FrameDeltas : Frame(delta)

SpecRig == InitRig /\ [][NextRig]_vars

---------------------------------------------------------------------------
(* The walk to the portal: the engine specification with enough frames for  *)
(* the camera to arrive at the end of the rail, and the portal's controls.  *)

DriveFrames == 1       \* the visitor's navigation input ends after this many frames
PortalFrames == 26     \* frames of the walk
ReturnFrames == 3      \* frames followed after a restart

\* mutant: the restart leaves the details panel as it is
OnRestartKeepsDetails(c) == [c EXCEPT !.sp = 0]

\* handleReturnToStart: setScrollPos(0); setState(s => ({...s, isDetailsOpen: false}))
OnRestart(c) == [c EXCEPT !.sp = 0, !.det = FALSE]

\* onRestart reached through one of the portal's controls.  When both
\* updates set the value the state already has, React renders nothing and
\* the step changes nothing.  restartLog keeps how the last effective restart
\* was invoked, what the portal's last frame had computed, and the frame
\* count (n alternates).  The visitor navigates first and uses the portal's
\* controls afterwards.
PortalRestart(via) ==
    /\ frameNo >= DriveFrames
    /\ Commit(OnRestart(Cur))
    /\ restartLog' = IF scrollPos = 0 /\ ~isDetailsOpen THEN restartLog
                      ELSE [via |-> via, visible |-> portal.visible, shown |-> portal.shown,
                            opacity |-> portal.opacity, n |-> 1 - restartLog.n,
                            at |-> frameNo]
    /\ UNCHANGED <<initPc, refreshPc, refreshData, engineFrame, img, probe>>

\* A click whose ray meets the hit-area mesh (onClick={onEnter}, 357-364).
\* three.js raycasting tests layers only, never Object3D.visible, so the mesh
\* is hit whatever groupRef.current.visible was set to (MoviePanel's own hit
\* area, lines 601-618, relies on a mesh that is not drawn being clickable).
PortalHitboxClick ==
    /\ ~OverlayBlocksPointer
    /\ PortalRestart("hitbox")

\* A pointer click on the Return button: pointer-events is 'auto' only while
\* visiblityOpacity > 0.8
ReturnButtonClick ==
    /\ ~OverlayBlocksPointer
    /\ portal.shown > RETURN_MIN
    /\ PortalRestart("button")

\* The Return button activated from the keyboard (focus, Enter): the CSS
\* property pointer-events does not apply to keyboard activation
ReturnButtonKey ==
    /\ variant = "refresh"
    /\ PortalRestart("key")

\* user input ends after DriveFrames frames, the frames go on
HandleNextEarly ==
    /\ frameNo < DriveFrames
    /\ HandleNext

OnItemClickEarly(idx) ==
    /\ frameNo < DriveFrames
    /\ OnItemClick(idx)

\* a further frame of the walk is due
FrameDue ==
    /\ frameNo < PortalFrames
    /\ restartLog.via # "none" => frameNo < restartLog.at + ReturnFrames

PortalWalkFrame(delta) ==
    /\ FrameDue
    /\ FrameStep(delta)

NextPortal ==
    \/ HandleNextEarly
    \/ \E idx \in 0..(Len(movies) - 1) : OnItemClickEarly(idx)
    \/ \E delta \in FrameDeltas : PortalWalkFrame(delta)
    \/ PortalHitboxClick
    \/ ReturnButtonClick
    \/ ReturnButtonKey

SpecPortal == InitRig /\ [][NextPortal]_vars

\* requestAnimationFrame keeps calling the frame loop: a frame that is due
\* is rendered.  Among the steps of NextPortal the frames are the ones that
\* advance frameNo.
SpecPortalLive == SpecPortal /\ WF_frameNo(FrameDue /\ frameNo' = frameNo + 1)

---------------------------------------------------------------------------
(* Gallery3D given an empty movies list: its props are set by the parent,   *)
(* frames run.                                                              *)

EmptyFrames == 3
\* scrollPos values handed to the component
EmptyRails == {0, 500, UNIT}

InitEmpty ==
    /\ variant = "refresh"
    /\ svc = 1
    /\ movies = <<>>
    /\ currentMovieIndex = 0
    /\ isDetailsOpen \in BOOLEAN
    /\ language = "zh"
    /\ isLoading = FALSE
    /\ scrollPos = 0
    /\ scrollPosRef = 0
    /\ errorMsg = "null"
    /\ isCurating = FALSE
    /\ initPc = "done"
    /\ refreshPc = "idle"
    /\ refreshData = Null
    /\ loadPc = "idle"
    /\ loadsInFlight = 0
    /\ smoothScroll = 0
    /\ camera = [x |-> 0, y |-> 0, z |-> 5 * UNIT]
    /\ smoothedLookAt = [x |-> 0, y |-> 0, z |-> -20 * UNIT]
    /\ elapsed = 0
    /\ flipRotY = <<>>
    /\ panelScale = <<>>
    /\ rig = RigNone
    /\ frameNo = 0
    /\ followers = FollowersNone
    /\ portal = PortalNone
    /\ IdleInit

\* the parent renders Gallery3D again with other scrollPos / isDetailsOpen props
PropsChange(sp, det) ==
    /\ sp # scrollPos \/ det # isDetailsOpen
    /\ scrollPos' = sp
    /\ scrollPosRef' = sp
    /\ isDetailsOpen' = det
    /\ UNCHANGED <<variant, svc, movies, currentMovieIndex, language, isLoading, errorMsg,
                   isCurating, initPc, refreshPc, refreshData, loadPc,
                   loadsInFlight, flipRotY, panelScale, engineRest>>

EmptyFrame(delta) ==
    /\ frameNo < EmptyFrames
    /\ FrameStep(delta)

NextEmpty ==
    \/ \E sp \in EmptyRails, det \in BOOLEAN : PropsChange(sp, det)
    \/ \E delta \in FrameDeltas : EmptyFrame(delta)

SpecEmpty == InitEmpty /\ [][NextEmpty]_vars

---------------------------------------------------------------------------
(* Opening and closing the details with frames of ordinary and of long      *)
(* duration (the first frame after the tab was in the background).          *)

FlipFrames == 3
\* frame deltas in ms: a slow frame, and the frame after an 8 s pause
FlipDeltas == {250, 8000}

\* largest panel scale (thousandths) from which a further frame is taken
ScaleCap == 50000

FlipFrame(delta) ==
    /\ frameNo < FlipFrames
    /\ \A k \in DOMAIN panelScale :
          panelScale[k] < ScaleCap /\ panelScale[k] > -ScaleCap
    /\ FrameStep(delta)

NextFlip ==
    \/ \E idx \in 0..(Len(movies) - 1) : OnItemClick(idx)
    \/ EscKey
    \/ CloseDetails
    \/ \E delta \in FlipDeltas : FlipFrame(delta)

SpecFlip == InitRig /\ [][NextFlip]_vars

---------------------------------------------------------------------------
(* src/unnamed/part_000: AsyncImagePanel, one panel instance slot *)

\* The image URLs a panel may be given: the URL is built from the movie's
\* visual metaphor and id, so it changes when the list is replaced by movies
\* with the same ids (same key, same component instance).
Urls == {"a", "b", "c"}

notImg == <<appVars, smoothScroll, camera, smoothedLookAt, elapsed, flipRotY, rig, frameNo,
            panelScale, followers, portal, restartLog, probe>>

\* first render and effect: useState(null); loader.load(url, callback)
ImgMount(u) ==
    /\ ~img.mounted
    /\ img' = [img EXCEPT !.mounted = TRUE, !.url = u, !.texture = "none",
                          !.inflight = {u}]
    /\ UNCHANGED notImg

\* the url prop changes: the effect's cleanup runs setTexture(null), the effect
\* runs again and starts a load of the new url; the load started before is
\* neither aborted nor marked
ImgUrlChange(u) ==
    /\ img.mounted
    /\ u # img.url
    /\ img' = [img EXCEPT !.url = u, !.texture = "none", !.inflight = @ \cup {u}]
    /\ UNCHANGED notImg

\* a load of this instance completes: (tex) => { setTexture(tex) }
ImgLoadDone(u) ==
    /\ img.mounted
    /\ u \in img.inflight
    /\ img' = [img EXCEPT !.texture = u, !.inflight = @ \ {u}]
    /\ UNCHANGED notImg

\* a load of this instance fails: no onError callback was given
ImgLoadError(u) ==
    /\ img.mounted
    /\ u \in img.inflight
    /\ img' = [img EXCEPT !.inflight = @ \ {u}]
    /\ UNCHANGED notImg

\* the panel is removed: cleanup runs, the instance's state is gone; its loads
\* stay in flight
ImgUnmount ==
    /\ img.mounted
    /\ img' = [mounted |-> FALSE, url |-> "none", texture |-> "none", inflight |-> {},
               orphans |-> img.orphans \cup img.inflight]
    /\ UNCHANGED notImg

\* a load of a removed instance completes: setTexture on an unmounted
\* component changes nothing
ImgOrphanDone(u) ==
    /\ u \in img.orphans
    /\ img' = [img EXCEPT !.orphans = @ \ {u}]
    /\ UNCHANGED notImg

\* the application as constructed, nothing rendered or applied yet
InitParked ==
    /\ variant = "refresh"
    /\ svc = 1
    /\ Init

NextImg ==
    \/ \E u \in Urls : ImgMount(u)
    \/ \E u \in Urls : ImgUrlChange(u)
    \/ \E u \in Urls : ImgLoadDone(u)
    \/ \E u \in Urls : ImgLoadError(u)
    \/ ImgUnmount
    \/ \E u \in Urls : ImgOrphanDone(u)

SpecImg == InitParked /\ [][NextImg]_vars

---------------------------------------------------------------------------
(* PortalDoor's fade as a function of the camera-to-portal distance *)

MaxDist == 40
Distances == {333 * k : k \in 0..(3 * MaxDist)} \cup {8 * UNIT, 25 * UNIT}

notProbe == <<appVars, smoothScroll, camera, smoothedLookAt, elapsed, flipRotY, rig, frameNo,
              panelScale, followers, portal, restartLog, img>>

\* PortalDoor useFrame 256-276 at distance d; the record keeps the distance
\* and opacity of the application before
FadeAt(d) ==
    LET opacity == PortalOpacity(d)
        first == probe.fn # "fade"
    IN  /\ probe' = [fn |-> "fade", d |-> d, opacity |-> opacity,
                     material |-> MaterialOpacity(opacity),
                     prevD |-> IF first THEN d ELSE probe.d,
                     prevOpacity |-> IF first THEN opacity ELSE probe.opacity]
        /\ UNCHANGED notProbe

NextFade == \E d \in Distances : FadeAt(d)

SpecFade == InitParked /\ [][NextFade]_vars

---------------------------------------------------------------------------
(* damp as a function, applied once and then iterated with the same target, *)
(* rate and time step                                                       *)

MaxIter == 12
\* rail positions (0.003, half a station, 3 stations), an angle, a coordinate
DampValues == {-2 * UNIT, 0, 3, 500, 1571, 3 * UNIT}
\* the rates used in the engine (3, 4, 5) and 0
DampLambdas == {0, 3, 4, 5}
\* time steps in ms: none, a 60 Hz frame, the cap, a stalled frame
DampSteps == {0, 16, 100, 250}

\* the first application: current = damp(current, target, lambda, dt)
DampStart(current, target, lambda, dt) ==
    /\ probe.fn = "none"
    /\ probe' = [fn |-> "damp", start |-> current, prev |-> current,
                 cur |-> Damp(current, target, lambda, dt),
                 target |-> target, lambda |-> lambda, dt |-> dt, n |-> 1]
    /\ UNCHANGED notProbe

\* the next application, in the next frame
DampAgain ==
    /\ probe.fn = "damp"
    /\ probe.n < MaxIter
    /\ probe' = [probe EXCEPT !.prev = probe.cur,
                              !.cur = Damp(probe.cur, probe.target, probe.lambda, probe.dt),
                              !.n = @ + 1]
    /\ UNCHANGED notProbe

NextDamp ==
    \/ \E current \in DampValues, target \in DampValues, lambda \in DampLambdas,
          dt \in DampSteps : DampStart(current, target, lambda, dt)
    \/ DampAgain

SpecDamp == InitParked /\ [][NextDamp]_vars

---------------------------------------------------------------------------
(* fetchMovieData as a function of what the environment and the service     *)
(* give it: the API key, the outcome of generateContent, the response text  *)

\* a movies array as the service wrote it: its own ids, elements told apart
ServiceMovies(n, rid) == [i \in 1..n |-> [id |-> rid, art |-> i]]

\* what the response text holds once any markdown fence is removed
ServiceBodies ==
    {[kind |-> k, movies |-> <<>>] :
        k \in {"garbage", "null", "number", "noMovies", "moviesScalar"}}
    \cup {[kind |-> "list", movies |-> ServiceMovies(n, rid)] :
            n \in RawLens, rid \in RawIds}

\* process.env.API_KEY set or not; generateContent resolves or rejects;
\* response.text empty, plain JSON text, or wrapped in ```json ... ```
ServiceInputs ==
    [key : BOOLEAN, api : {"ok", "error"}, text : {"empty", "plain", "fenced"},
     body : ServiceBodies]

Thrown == [thrown |-> TRUE, value |-> Null]
Returned(v) == [thrown |-> FALSE, value |-> v]

\* JSON.parse of a text without fence
JsonParse(body) ==
    IF body.kind = "garbage" THEN Thrown ELSE Returned(body)

\* lines 118-124 / 261-267: JSON.parse(text), and in its catch block
\* JSON.parse of the text without ```json and ```
ParseWithCleanup(in) ==
    LET first == IF in.text = "fenced" THEN Thrown ELSE JsonParse(in.body)
    IN  IF first.thrown THEN JsonParse(in.body) ELSE first

\* lines 127-131 / 270-275 on the parsed value
AssignAndReturn(data, v) ==
    CASE data.kind = "null" -> Thrown
      [] data.kind = "moviesScalar" -> Thrown
      [] data.kind \in {"number", "noMovies"} ->
            Returned([isNull |-> FALSE, hasMovies |-> FALSE, movies |-> <<>>])
      [] OTHER ->
            LET kept == IF v = 1
                        THEN SubSeq(data.movies, 1, Min(SLICE_LIMIT, Len(data.movies)))
                        ELSE data.movies
            IN  Returned([isNull |-> FALSE, hasMovies |-> TRUE, movies |-> AssignIds(kept)])

\* the body of the try block
TryBlock(in, v) ==
    IF in.api = "error" THEN Thrown
    ELSE IF in.text = "empty" THEN Returned(Null)
    ELSE LET parsed == ParseWithCleanup(in)
         IN  IF parsed.thrown THEN Thrown ELSE AssignAndReturn(parsed.value, v)

\* (variant for comparison: an exception of the try block leaves the function)
CatchRethrows(r) ==
    IF r.thrown THEN [settled |-> "rejected", data |-> Null]
    ELSE [settled |-> "resolved", data |-> r.value]

\* try { ... } catch (error) { console.error(...); return null; }
CatchReturnsNull(r) ==
    IF r.thrown THEN [settled |-> "resolved", data |-> Null]
    ELSE [settled |-> "resolved", data |-> r.value]

\* fetchMovieData of either variant, as the settlement of its promise
FetchCall(in, v) ==
    IF ~in.key THEN [settled |-> "resolved", data |-> Null]
    ELSE CatchReturnsNull(TryBlock(in, v))

FetchProbe(in, v) ==
    /\ probe.fn = "none"
    /\ probe' = [fn |-> "fetch", in |-> in, v |-> v, out |-> FetchCall(in, v)]
    /\ UNCHANGED notProbe

NextFetch == \E in \in ServiceInputs, v \in {1, 2} : FetchProbe(in, v)

SpecFetch == InitParked /\ [][NextFetch]_vars

---------------------------------------------------------------------------
(* Properties *)

\* What Gallery3D's render hands to React for a movies list: one panel per
\* array index, keyed by the movie's id, placed by the index.
RenderedPanels(mv) ==
    [i \in 1..Len(mv) |-> [key |-> mv[i].id, placement |-> PanelPlacement(i - 1)]]

\* App render: safeMovieIndex = Math.min(state.currentMovieIndex, state.movies.length - 1)
SafeMovieIndex == Min(currentMovieIndex, Len(movies) - 1)

\* The Content angle of the panel at an index: world rotation +pi/2 (left
\* panels) or -pi/2 (right panels) expressed in the panel's own frame.
ContentAngle(i) ==
    (IF i % 2 = 0 THEN HALF_PI ELSE -HALF_PI) - PanelPlacement(i).rotY

\* C1: in every frame, for every panel index i below movies.length, the flip
\* target is the Content angle exactly when round(scrollPos) = i and
\* isDetailsOpen, and the Cover angle pi otherwise; so at most one panel has a
\* Content target, and none has one at the portal station.
C1_FlipTargetIffSelectedAndOpen ==
    rig.frame > 0 =>
        /\ \A i \in 0..(rig.len - 1) :
              /\ ContentAngle(i) # PI
              /\ rig.flipTarget[i] =
                    IF MathRound(rig.sp) = i /\ rig.det THEN ContentAngle(i) ELSE PI
        /\ Cardinality({i \in 0..(rig.len - 1) : rig.flipTarget[i] # PI}) <= 1
        /\ MathRound(rig.sp) >= rig.len =>
              \A i \in 0..(rig.len - 1) : rig.flipTarget[i] = PI

C1_Witness ==
    /\ rig.frame > 0
    /\ rig.det
    /\ MathRound(rig.sp) = 1
    /\ rig.flipTarget[1] = ContentAngle(1)
    /\ rig.flipTarget[0] = PI

\* C2: isDetailsOpen goes from false to true only in a step of onItemClick,
\* and that step leaves scrollPos at the clicked index.
C2_DetailsOpenOnlyByItemClick ==
    [][(~isDetailsOpen /\ isDetailsOpen') =>
          \E idx \in 0..(Len(movies) - 1) :
              OnItemClick(idx) /\ scrollPos' = idx * UNIT]_vars

C2_Witness ==
    /\ isDetailsOpen
    /\ scrollPos = 2 * UNIT
    /\ currentMovieIndex = 2

\* C3: in every reachable state of the App (src/index.tsx),
\* 0 <= scrollPos <= movies.length.
C3_ScrollPosWithinRail ==
    variant = "refresh" => 0 <= scrollPos /\ scrollPos <= Len(movies) * UNIT

\* C4: for scrollPos in [0, movies.length], the index Gallery3D uses for the
\* active colour and the index App uses for the current movie are both
\* round(scrollPos) clamped into [0, movies.length - 1], hence inside the array.
C4_LookupIndexIsClampedRound ==
    (variant = "refresh" /\ 0 <= scrollPos /\ scrollPos <= Len(movies) * UNIT) =>
        LET clamped == Min(Max(MathRound(scrollPos), 0), Len(movies) - 1)
        IN  /\ SafeIndex(scrollPos, Len(movies)) = clamped
            /\ SafeMovieIndex = clamped
            /\ clamped + 1 \in DOMAIN movies

\* C5: in a frame at the portal station (round(scrollPos) >= movies.length)
\* the camera's target X is the corridor X and the look-at target is the
\* swaying path point without any pull, whether the details are open or not.
C5_PortalOverridesDetail ==
    (rig.frame > 0 /\ MathRound(rig.sp) >= rig.len) =>
        /\ rig.t.target.x = GetPathPoint(rig.smooth - CAM_LEAD).x
        /\ rig.t.lookAt.x = GetPathPoint(rig.smooth + LOOK_AHEAD).x
                              + Mul(MathSin(TruncDiv(rig.time, 5)), 2 * UNIT)

C5_Witness ==
    /\ rig.frame > 0
    /\ rig.det
    /\ MathRound(rig.sp) >= rig.len
    /\ rig.t.detailCamX # rig.t.target.x

\* C6: in a detail frame (details open, not at the portal) the camera's target
\* X is the active panel's world X plus 3.5 for an even (left) panel and minus
\* 3.5 for an odd (right) one, i.e. on the side opposite to the panel's offset.
C6_DetailStandOffOppositeSide ==
    (rig.frame > 0 /\ rig.det /\ MathRound(rig.sp) < rig.len) =>
        LET a == MathRound(rig.sp)
            panelX == PanelPlacement(a).pos.x
        IN  /\ rig.t.target.x = IF a % 2 = 0 THEN panelX + STAND_OFF
                                             ELSE panelX - STAND_OFF
            /\ PanelPlacement(a).xOffset < 0 => rig.t.target.x > panelX
            /\ PanelPlacement(a).xOffset > 0 => rig.t.target.x < panelX

C6_Witness ==
    /\ rig.frame > 0
    /\ rig.det
    /\ MathRound(rig.sp) = 1
    /\ rig.t.target.x = PanelPlacement(1).pos.x - STAND_OFF

\* C7: for the same smoothed rail value, the camera target's Y and Z and the
\* look-at target's Y and Z are the same with the details open and closed.
C7_DetailReframesOnlyX ==
    rig.frame > 0 =>
        LET other == RigTargets(rig.smooth, rig.sp, ~rig.det, rig.len, rig.time)
        IN  /\ rig.t.target.y = other.target.y
            /\ rig.t.target.z = other.target.z
            /\ rig.t.lookAt.y = other.lookAt.y
            /\ rig.t.lookAt.z = other.lookAt.z

C7_Witness ==
    /\ rig.frame > 0
    /\ rig.det
    /\ MathRound(rig.sp) < rig.len
    /\ rig.t.target.x #
         RigTargets(rig.smooth, rig.sp, FALSE, rig.len, rig.time).target.x
    /\ rig.t.lookAt.x #
         RigTargets(rig.smooth, rig.sp, FALSE, rig.len, rig.time).lookAt.x

\* C8: every index is placed at -PATH_WIDTH when even and +PATH_WIDTH when
\* odd, also beyond the first list's length, and in every frame the rig's side
\* and world X for the active index are those of the panel placed there.
C8_PlacementParityAgreesWithRig ==
    /\ \A index \in 0..(MaxLen + 1) :
          /\ PanelIsLeft(index) <=> (index % 2 = 0)
          /\ PanelXOffset(index) = IF index % 2 = 0 THEN -PATH_WIDTH ELSE PATH_WIDTH
    /\ rig.frame > 0 =>
          LET placed == PanelPlacement(rig.t.activeIdx)
          IN  /\ rig.t.activeIdx = MathRound(rig.sp)
              /\ rig.t.isLeftMovie = placed.isLeft
              /\ rig.t.activeMovieX = placed.pos.x
              /\ placed.pos.x = GetPathPoint(rig.t.activeIdx * UNIT).x
                                  + (IF rig.t.activeIdx % 2 = 0 THEN -PATH_WIDTH
                                                                ELSE PATH_WIDTH)

C8_Witness ==
    /\ rig.frame > 1
    /\ rig.t.activeIdx = 1
    /\ ~rig.t.isLeftMovie
    /\ rig.t.activeMovieX = GetPathPoint(UNIT).x + PATH_WIDTH

\* C9: a loadMore step that appends a batch leaves every panel at an old index
\* with its key and placement, and leaves scrollPos and isDetailsOpen alone.
C9_AppendKeepsOldPanels ==
    [][((\E raw \in RawResponses : LoadMoreDone(raw)) /\ Len(movies') > Len(movies)) =>
          /\ SubSeq(RenderedPanels(movies'), 1, Len(movies)) = RenderedPanels(movies)
          /\ SubSeq(movies', 1, Len(movies)) = movies
          /\ scrollPos' = scrollPos
          /\ isDetailsOpen' = isDetailsOpen]_vars

C9_Witness ==
    /\ variant = "infinite"
    /\ Len(movies) = FALLBACK_LEN + 3
    /\ movies[1].art = "F"
    /\ movies[FALLBACK_LEN + 1].art = "G"
    /\ isDetailsOpen
    /\ scrollPos > (FALLBACK_LEN - 4) * UNIT

\* C10: in every reachable state movies[i].id = i + 1 for every array index i
\* (1-based here: the element at position k has id k).
C10_IdsAreArrayPositions ==
    \A k \in 1..Len(movies) : movies[k].id = k

C10_Witness ==
    /\ variant = "infinite"
    /\ Len(movies) = 4
    /\ \A k \in 1..Len(movies) : movies[k].art = "G"


\* C11: a load that completes after the panel's url changed or the panel was
\* removed mutates nothing, so a mounted panel's texture is always the one of
\* its current url (or none).
C11_TextureBelongsToCurrentUrl ==
    (img.mounted /\ img.texture # "none") => img.texture = img.url

\* C12: the step on which the initial background fetch settles leaves
\* scrollPos, isDetailsOpen and the rig's smoothed state as they were, and
\* leaves the movies list as it was when scrollPos > 0.5.
C12_InitFetchKeepsPlace ==
    [][(initPc = "pending" /\ initPc' = "done") =>
          /\ scrollPos' = scrollPos
          /\ isDetailsOpen' = isDetailsOpen
          /\ smoothScroll' = smoothScroll
          /\ camera' = camera
          /\ smoothedLookAt' = smoothedLookAt
          /\ (scrollPos > 500 => movies' = movies)]_vars

\* C13: the portal's opacity is 0 from distance 25 on, 1 up to distance 8,
\* 1 - (d - 8)/17 in between (to the rounding of the last digit), and does
\* not increase with the distance; the material opacity is the opacity times
\* 0.95 and never above 0.95.
C13_PortalFadeIsClampedRamp ==
    probe.fn = "fade" =>
        /\ probe.opacity \in 0..UNIT
        /\ (probe.d >= 25 * UNIT => probe.opacity = 0)
        /\ (probe.d <= 8 * UNIT => probe.opacity = UNIT)
        /\ (probe.d \in (8 * UNIT)..(25 * UNIT) =>
              /\ 2 * (17 * probe.opacity - (25 * UNIT - probe.d)) <= 17
              /\ 2 * ((25 * UNIT - probe.d) - 17 * probe.opacity) <= 17)
        /\ (probe.prevD <= probe.d => probe.prevOpacity >= probe.opacity)
        /\ 2 * (UNIT * probe.material - 950 * probe.opacity) <= UNIT
        /\ 2 * (950 * probe.opacity - UNIT * probe.material) <= UNIT
        /\ probe.material <= 950

\* the fade has been applied in the ramp, after a nearer application
C13_Witness ==
    /\ probe.fn = "fade"
    /\ probe.d > 8 * UNIT
    /\ probe.d < 25 * UNIT
    /\ probe.opacity > 0
    /\ probe.opacity < UNIT
    /\ probe.prevD < probe.d
    /\ probe.prevOpacity > probe.opacity
    /\ probe.material < probe.opacity

\* C14: onRestart is invoked through the portal only while the portal is
\* seen: through the Return button only when the displayed visibility was
\* above 0.8, through the hit area only when the group was visible
\* (opacity > 0.01), and never at opacity 0 (restarts after the portal's
\* first frame).
C14_RestartOnlyWhileVisible ==
    (restartLog.via # "none" /\ restartLog.at > 0) =>
        /\ restartLog.opacity > 0
        /\ (restartLog.via = "hitbox" => restartLog.visible /\ restartLog.opacity > VISIBLE_MIN)
        /\ (restartLog.via \in {"button", "key"} => restartLog.shown > RETURN_MIN)

\* C15: with scrollPos at movies.length, every frame detects Portal mode and
\* the camera-to-portal distance does not grow from one frame to the next;
\* while scrollPos is held there and frames run, the displayed visibility
\* comes to exceed 0.8, the value from which the Return button takes clicks.
C15_PortalBecomesClickable ==
    /\ [](rig.frame > 0 /\ rig.sp = rig.len * UNIT => rig.t.isPortal)
    /\ [][(frameNo' = frameNo + 1 /\ rig.frame > 0 /\ rig.sp = rig.len * UNIT
              /\ scrollPos = Len(movies) * UNIT)
          => portal'.dist <= portal.dist]_vars
    /\ (scrollPos = Len(movies) * UNIT)
          ~> (portal.shown > RETURN_MIN \/ scrollPos # Len(movies) * UNIT)

\* the visitor stands at the end of the rail, never restarted, and the Return
\* button takes clicks
C15_Witness ==
    /\ scrollPos = Len(movies) * UNIT
    /\ restartLog.via = "none"
    /\ rig.t.isPortal
    /\ portal.shown > RETURN_MIN
    /\ portal.dist < 11 * UNIT

\* C16: a restart through the portal sets scrollPos to 0 and closes the
\* details, leaves movies, language and isLoading alone and does not touch
\* the smoothed rail value or the camera; the frames after it bring the
\* smoothed rail value down gradually: while it is a station or more away
\* from 0, a frame leaves it strictly between 0 and its previous value and
\* moves the camera back by less than a station.
C16_RestartReturnsByDamping ==
    [][/\ restartLog'.n # restartLog.n =>
             /\ scrollPos' = 0
             /\ ~isDetailsOpen'
             /\ movies' = movies
             /\ language' = language
             /\ isLoading' = isLoading
             /\ smoothScroll' = smoothScroll
             /\ camera' = camera
       /\ (frameNo' = frameNo + 1 /\ scrollPos = 0 /\ smoothScroll >= UNIT) =>
             /\ smoothScroll' > 0
             /\ smoothScroll' < smoothScroll
             /\ camera'.z < camera.z + 8 * UNIT]_vars

\* a restart with the details open at the end of the rail has happened and
\* the first frame after it has run: the rail value is still near the portal
C16_Witness ==
    /\ restartLog.via # "none"
    /\ restartLog.at >= PortalFrames - ReturnFrames
    /\ frameNo = restartLog.at + 1
    /\ scrollPos = 0
    /\ ~isDetailsOpen
    /\ smoothScroll > 2 * UNIT

\* C17: damp(v, v, lambda, dt) = v for every rate and time step, and
\* damp(current, target, lambda, 0) = current: at its target, and with a time
\* step of 0, the follower does not move.
C17_DampFixedAtTargetAndAtZeroStep ==
    (probe.fn = "damp" /\ probe.n = 1) =>
        /\ (probe.start = probe.target => probe.cur = probe.start)
        /\ (probe.dt = 0 => probe.cur = probe.start)

\* C18: iterated with a fixed positive rate and time step from a value off
\* the target, damp never moves current away from the target nor past it:
\* every application leaves it
\* between its previous value and the target, on the side it started on.
C18_DampIterationStaysBetween ==
    (probe.fn = "damp" /\ probe.lambda > 0 /\ probe.dt > 0 /\ probe.start # probe.target) =>
        /\ Min(probe.prev, probe.target) <= probe.cur
        /\ probe.cur <= Max(probe.prev, probe.target)
        /\ (probe.start <= probe.target => probe.cur <= probe.target)
        /\ (probe.start >= probe.target => probe.cur >= probe.target)

\* C19: every smoothing step of a frame uses a time step of at most 0.1 s:
\* the rail, the camera position and the look-at point, the panels' flip
\* angle, and the blend factors of the panels' scale (4 * dt) and of the
\* particles' tint (2 * dt).
C19_EverySmoothingStepIsClamped ==
    rig.frame > 0 =>
        /\ rig.dt.rail <= 100
        /\ rig.dt.camera <= 100
        /\ rig.dt.lookAt <= 100
        /\ rig.dt.flip <= 100
        /\ rig.dt.scaleAlpha <= 4 * 100
        /\ rig.dt.tintAlpha <= 2 * 100

\* C20: at the end of every frame the light group is at the camera's
\* position and the floor, the follow grid and the particle cloud are
\* centred on the camera's X/Z of that frame.
C20_FollowersAtCameraOfSameFrame ==
    rig.frame > 0 =>
        /\ followers.light = camera
        /\ followers.floor = [x |-> camera.x, z |-> camera.z]
        /\ followers.grid = [x |-> camera.x, z |-> camera.z]
        /\ followers.particles = [x |-> camera.x, z |-> camera.z]

\* C21: with an empty movies list no panel exists, the colour lookup gives
\* the default, every frame uses the corridor targets whatever isDetailsOpen
\* is, and a frame with the rail at 0 and scrollPos 0 targets the camera
\* position of rail 0.
C21_EmptyListFramesCorridor ==
    (Len(movies) = 0 /\ rig.frame > 0) =>
        /\ ActiveMovieColor(scrollPos, Len(movies)) = "#ffffff"
        /\ RenderedPanels(movies) = <<>>
        /\ rig.flipTarget = <<>>
        /\ rig.t.target = rig.t.corridor
        /\ rig.t.lookAt.x = rig.t.swayX
        /\ (rig.sp = 0 /\ rig.prevSmooth = 0 =>
              /\ rig.smooth = 0
              /\ rig.t.target = [x |-> GetPathPoint(-CAM_LEAD).x,
                                 y |-> GetPathPoint(-CAM_LEAD).y + CAM_HEIGHT,
                                 z |-> GetPathPoint(-CAM_LEAD).z])

\* a frame has run on the empty list with the details flag set and the rail
\* held at 0
C21_Witness ==
    /\ Len(movies) = 0
    /\ rig.frame > 1
    /\ rig.det
    /\ rig.sp = 0
    /\ rig.prevSmooth = 0
    /\ rig.t.detailCamX # rig.t.target.x

\* C22: in the first frame after the details were closed on the active
\* panel, the panel's flip angle does not jump to the Cover angle pi: it
\* ends strictly between its previous value and pi.
C22_CloseAnimatesFlip ==
    [][\A i \in 0..(Len(movies) - 1) :
          (/\ frameNo' = frameNo + 1
           /\ rig.frame > 0
           /\ rig.len = Len(movies)
           /\ rig.det /\ ~isDetailsOpen
           /\ rig.flipTarget[i] # PI
           /\ rig'.flipTarget[i] = PI
           /\ flipRotY[movies[i + 1].id] < PI)
          => /\ flipRotY'[movies[i + 1].id] > flipRotY[movies[i + 1].id]
             /\ flipRotY'[movies[i + 1].id] < PI]_vars

\* C23: every started refresh ends: a loading App of the refresh variant
\* eventually is not loading and shows no error message.
C23_RefreshEnds ==
    (variant = "refresh" /\ isLoading) ~> (~isLoading /\ errorMsg = "null")

\* a refresh has replaced the list (initData has not answered yet) and ended
C23_Witness ==
    /\ variant = "refresh"
    /\ refreshPc = "idle"
    /\ ~isLoading
    /\ errorMsg = "null"
    /\ initPc = "pending"
    /\ movies # FALLBACK_MOVIES

C25_OneRefreshInFlight ==
    variant = "refresh" =>
        /\ isLoading <=> refreshPc # "idle"
        /\ isLoading => ~ENABLED HandleRefreshExhibition
        /\ isLoading => ~ENABLED (\E deltaY \in WheelDeltas : HandleWheel(deltaY))

\* a refresh waits for its fetch with the rail inside the list, where the
\* wheel would move it
C25_Witness ==
    /\ variant = "refresh"
    /\ isLoading
    /\ refreshPc = "fetching"
    /\ scrollPos > 0
    /\ scrollPos < Len(movies) * UNIT

\* C26: fetchMovieData never rejects; without API key, on an API error, on
\* an empty text and on a text that cannot be parsed even without its
\* markdown fence it resolves to null; a result with a movies array holds
\* the service's movies in their order with ids 1..n, at most 16 of them in
\* the first variant.
C26_FetchResolvesNullOrNumbered ==
    probe.fn = "fetch" =>
        LET in == probe.in
            out == probe.out
        IN  /\ out.settled = "resolved"
            /\ (\/ ~in.key
                \/ in.api = "error"
                \/ in.text = "empty"
                \/ in.body.kind = "garbage") => out.data = Null
            /\ out.data.hasMovies =>
                  /\ in.body.kind = "list"
                  /\ Len(out.data.movies) =
                        IF probe.v = 1 THEN Min(SLICE_LIMIT, Len(in.body.movies))
                        ELSE Len(in.body.movies)
                  /\ \A i \in 1..Len(out.data.movies) :
                        /\ out.data.movies[i].id = i
                        /\ out.data.movies[i].art = in.body.movies[i].art

\* a fenced answer of 17 movies with foreign ids went through the first variant
C26_Witness ==
    /\ probe.fn = "fetch"
    /\ probe.v = 1
    /\ probe.in.key /\ probe.in.api = "ok" /\ probe.in.text = "fenced"
    /\ Len(probe.in.body.movies) > SLICE_LIMIT
    /\ probe.in.body.movies[1].id # 1
    /\ probe.out.data.hasMovies

\* C27: in the infinite-scroll variant at most one content fetch is in
\* flight: no expansion waits for its fetch while initData is pending, and
\* never two expansions at once.
C27_OneContentFetchInFlight ==
    variant = "infinite" =>
        /\ loadsInFlight <= 1
        /\ initPc = "pending" => loadsInFlight = 0

C29_DetailsDescribeRevealedPanel ==
    (variant = "refresh" /\ isDetailsOpen /\ MathRound(scrollPos) < Len(movies)) =>
        /\ currentMovieIndex = MathRound(scrollPos)
        /\ movies[SafeMovieIndex + 1] = movies[MathRound(scrollPos) + 1]
        /\ (currentMovieIndex % 2 = 0) <=> PanelIsLeft(MathRound(scrollPos))

\* C30: every panel's scale is between 1.0 and 1.3 after any sequence of
\* frames and reveal changes.
C30_PanelScaleWithinRange ==
    \A k \in DOMAIN panelScale :
        panelScale[k] >= SCALE_REST /\ panelScale[k] <= SCALE_REVEALED

=============================================================================
